---- MODULE Spec2Model ----
(***************************************************************************)
(* Model of new_app.py, the Streamlit "Query Generation Tool".             *)
(*                                                                         *)
(* Streamlit re-executes the whole script, top to bottom, on every widget  *)
(* interaction.  A step of the model is one such re-execution: the user    *)
(* changes one widget or presses one button, and the script runs with the  *)
(* widget values of that moment.  The answers of the remote endpoint are   *)
(* inputs of the step.                                                     *)
(*                                                                         *)
(* Python str values that are searched for markers are sequences of        *)
(* one-character strings; other texts are sequences of string pieces whose *)
(* concatenation is the text.  dict is a TLA+ record, list a sequence.     *)
(***************************************************************************)
EXTENDS Integers, Sequences, FiniteSets, TLC

VARIABLES
    w,        \* the widget values the script reads (lines 13-70)
    clicked,  \* the button that triggered the last script run, or "none"
    ui,       \* what the last script run displayed, in order
    net,      \* the network calls of the last script run, in order
    response, \* what generate_query returned in the last run (line 171)
    answer,   \* what parse_response returned in the last run (line 172)
    exc,      \* the exception that ended the last run uncaught, or "none"
    pending,  \* the endpoint's answer awaiting the generation request
    pc        \* "app" for the interactive application, else "ready"/"done"

vars == <<w, clicked, ui, net, response, answer, exc, pending, pc>>

(***************************************************************************)
(* Bounds                                                                  *)
(***************************************************************************)
\* The reply texts are the concatenations of at most MaxTokens tokens.
MaxTokens == 4

(***************************************************************************)
(* Python values                                                           *)
(***************************************************************************)
None == [t |-> "None"]

PyStr(s) == [t |-> "str", v |-> s]

\* {}: the record without fields.  It is also the empty sequence; no reply of
\* the model holds a dict where the code expects a list, or a list for a dict.
EmptyDict == [k \in {} |-> k]

\* The outcome of a call: a returned value, or an exception raised
Return(v) == [raised |-> "none", value |-> v]

Raise(e) == [raised |-> e]

\* dict.get(key, default)
Get(d, key, default) == IF key \in DOMAIN d THEN d[key] ELSE default

RECURSIVE Concat(_)
Concat(ss) == IF ss = <<>> THEN <<>> ELSE Head(ss) \o Concat(Tail(ss))

\* str.find(sub): the 1-based index of the leftmost occurrence, 0 when none
find(s, sub) ==
    LET occ == {i \in 1..(Len(s) - Len(sub) + 1) : SubSeq(s, i, i + Len(sub) - 1) = sub}
    IN  IF occ = {} THEN 0 ELSE CHOOSE i \in occ : \A j \in occ : i <= j

\* sub in s
Contains(s, sub) == find(s, sub) # 0

\* str.split(sep): the pieces between the non-overlapping occurrences of sep,
\* found from the left
RECURSIVE split(_, _)
split(s, sep) ==
    LET i == find(s, sep)
    IN  IF i = 0 THEN <<s>>
        ELSE <<SubSeq(s, 1, i - 1)>> \o split(SubSeq(s, i + Len(sep), Len(s)), sep)

Whitespace == {" ", "\n", "\t"}

\* str.strip()
RECURSIVE strip(_)
strip(s) ==
    IF s = <<>> THEN s
    ELSE IF Head(s) \in Whitespace THEN strip(Tail(s))
    ELSE IF s[Len(s)] \in Whitespace THEN strip(SubSeq(s, 1, Len(s) - 1))
    ELSE s

(***************************************************************************)
(* The markers of parse_response                                           *)
(***************************************************************************)
\* The backquote character (U+0060), which cannot be written in a TLA+ string.
Tick == "<backquote>"

\* The marker of an SQL block: three backquotes followed by sql (line 154)
SqlMarker == <<Tick, Tick, Tick, "s", "q", "l">>

\* A bare fence: three backquotes (line 154)
Fence == <<Tick, Tick, Tick>>

ExplanationMarker ==
    <<"*", "*", "E", "x", "p", "l", "a", "n", "a", "t", "i", "o", "n", ":", "*", "*">>

NoteMarker == <<"*", "*", "N", "o", "t", "e", ":", "*", "*">>

NoSqlQuery == <<"No SQL query generated.">>

(***************************************************************************)
(* What the script displays and sends                                      *)
(***************************************************************************)
\* st.error(text), st.success(text), st.header(text), st.write(text),
\* st.text_area(label, value=text)
Error(text) == [kind |-> "error", text |-> text]

Success(text) == [kind |-> "success", text |-> text]

Header(text) == [kind |-> "header", text |-> text]

Write(text) == [kind |-> "write", text |-> text]

TextArea(text) == [kind |-> "text_area", text |-> text]

\* The value of response and answer in a run that did not reach lines 171-172
NoCall == [t |-> "NoCall"]

(***************************************************************************)
(* condition_input: the table of a section                                 *)
(***************************************************************************)
\* pd.read_csv(StringIO(table_input), sep="\t"): the first line names the
\* columns, the other lines are the rows
read_csv(lines) == [t |-> "DataFrame", columns |-> Head(lines), rows |-> Tail(lines)]

\* lines 47-52: the table is None when nothing was pasted
table_of(table_input) == IF table_input # <<>> THEN read_csv(table_input) ELSE None

\* DataFrame.empty
empty(table) == table.rows = <<>> \/ table.columns = <<>>

(***************************************************************************)
(* verify_api_key                                                          *)
(***************************************************************************)
\* The request of line 75-79
verify_request(api_key) ==
    [fn |-> "verify_api_key", key |-> api_key,
     json |-> [contents |-> <<[parts |-> <<[text |-> <<"Say hello">>]>>]>>]]

\* verify_api_key reading the status as response.ok does (any code below 400)
verify_api_key_ok(api_key, post) ==
    IF post.kind = "RequestException" THEN FALSE
    ELSE post.status_code < 400

\* post is what requests.post did: it raised a RequestException or returned a
\* response.  True exactly for a response whose status code is 200.
verify_api_key(api_key, post) ==
    IF post.kind = "RequestException" THEN FALSE
    ELSE post.status_code = 200

(***************************************************************************)
(* generate_query                                                          *)
(***************************************************************************)
\* str(x) inside the f-string: a str is itself, a DataFrame its dump
Str(x) ==
    IF x.t = "str" THEN <<x.v>>
    ELSE IF x.rows = <<>>
         THEN <<"Empty DataFrame", "Columns: ">> \o x.columns \o <<"Index: []">>
         ELSE x.columns \o Concat(x.rows)

\* {x if x is not None else "Not provided"}
OrNotProvided(x) == IF x # None THEN Str(x) ELSE <<"Not provided">>

\* lines 93-109: the fields the template embeds, in order
build_prompt(source_system, target_system, validation_type, source_table, target_table, source_condition, source_column, source_logic, target_condition, target_column, target_logic) ==
    [SourceSystem    |-> OrNotProvided(source_system),
     TargetSystem    |-> Str(target_system),
     ValidationType  |-> Str(validation_type),
     SourceTable     |-> OrNotProvided(source_table),
     TargetTable     |-> Str(target_table),
     SourceCondition |-> OrNotProvided(source_condition),
     SourceColumn    |-> OrNotProvided(source_column),
     SourceLogic     |-> OrNotProvided(source_logic),
     TargetCondition |-> OrNotProvided(target_condition),
     TargetColumn    |-> OrNotProvided(target_column),
     TargetLogic     |-> OrNotProvided(target_logic)]

\* lines 111-132: the request carrying the prompt
generate_request(api_key, prompt, temperature, top_p) ==
    [fn |-> "generate_query", key |-> api_key,
     json |-> [contents |-> <<[role |-> "user", parts |-> <<[text |-> prompt]>>]>>,
               generationConfig |-> [temperature |-> temperature, topP |-> top_p],
               safetySettings |->
                 <<[category |-> "HARM_CATEGORY_SEXUALLY_EXPLICIT", threshold |-> "BLOCK_NONE"],
                   [category |-> "HARM_CATEGORY_HATE_SPEECH", threshold |-> "BLOCK_LOW_AND_ABOVE"],
                   [category |-> "HARM_CATEGORY_HARASSMENT", threshold |-> "BLOCK_MEDIUM_AND_ABOVE"],
                   [category |-> "HARM_CATEGORY_DANGEROUS_CONTENT", threshold |-> "BLOCK_ONLY_HIGH"]>>]]

\* response.raise_for_status() raises HTTPError for the codes 400 to 599
raises_for_status(status_code) == status_code >= 400 /\ status_code < 600

\* str(e) of that HTTPError
http_error(status_code) ==
    IF status_code < 500 THEN <<"Client Error">> ELSE <<"Server Error">>

\* An except clause: st.error(f"{prefix}{e}") and return {"error": str(e)}
failure(prefix, message) ==
    [ret |-> [error |-> message], ui |-> <<Error(<<prefix>> \o message)>>]

\* exchange without the check of the content type (lines 136-138)
exchange_unchecked(post) ==
    IF post.kind = "RequestException"
    THEN failure("API request failed: ", post.message)
    ELSE IF raises_for_status(post.status_code)
    THEN failure("API request failed: ", http_error(post.status_code))
    ELSE IF ~post.body.valid
    THEN failure("Error parsing JSON response: ", <<"Expecting value">>)
    ELSE [ret |-> post.body.json, ui |-> <<>>]

\* lines 110-149, on what requests.post did
exchange(post) ==
    IF post.kind = "RequestException"
    THEN failure("API request failed: ", post.message)
    ELSE IF raises_for_status(post.status_code)
    THEN failure("API request failed: ", http_error(post.status_code))
    ELSE IF post.content_type = None
    THEN \* 'application/json' not in None raises TypeError
         failure("Unexpected error: ", <<"argument of type 'NoneType' is not iterable">>)
    ELSE IF ~Contains(post.content_type.v, <<"application/json">>)
    THEN failure("Unexpected error: ", <<"Unexpected content type: ">> \o post.content_type.v)
    ELSE IF ~post.body.valid
    THEN \* response.json() raises; the class depends on the requests version
         IF post.body.raises = "requests.exceptions.JSONDecodeError"
         THEN failure("API request failed: ", <<"Expecting value">>)
         ELSE IF post.body.raises = "json.JSONDecodeError"
         THEN failure("Error parsing JSON response: ", <<"Expecting value">>)
         ELSE failure("Unexpected error: ", <<"Expecting value">>)
    ELSE [ret |-> post.body.json, ui |-> <<>>]

\* The call of requests.post with the prompt, and what became of it
sent(api_key, prompt, temperature, top_p, post, r) ==
    [ret |-> r.ret, ui |-> r.ui,
     net |-> <<[request |-> generate_request(api_key, prompt, temperature, top_p),
                post |-> post]>>]

generate_query(api_key, source_system, target_system, validation_type, source_table, target_table, source_condition, source_column, source_logic, target_condition, target_column, target_logic, temperature, top_p, post) ==
    sent(api_key,
         build_prompt(source_system, target_system, validation_type, source_table, target_table, source_condition, source_column, source_logic, target_condition, target_column, target_logic),
         temperature, top_p, post, exchange(post))

(***************************************************************************)
(* parse_response                                                          *)
(***************************************************************************)
\* line 153: the text of the first part of the first candidate
first(list) == IF list = <<>> THEN Raise("IndexError") ELSE Return(list[1])

\* .get('content', {}).get('parts', [{}])[0].get('text', '') of a candidate
text_of_part(part) ==
    IF part.raised # "none" THEN part ELSE Return(Get(part.value, "text", <<>>))

text_of_candidate(candidate) ==
    IF candidate.raised # "none" THEN candidate
    ELSE text_of_part(first(Get(Get(candidate.value, "content", EmptyDict), "parts", <<EmptyDict>>)))

content_of(reply) == text_of_candidate(first(Get(reply, "candidates", <<EmptyDict>>)))

\* sql_query without the strip()
sql_query_unstripped(content) ==
    IF Contains(content, SqlMarker)
    THEN split(split(content, SqlMarker)[2], Fence)[1]
    ELSE NoSqlQuery

\* line 154
sql_query(content) ==
    IF Contains(content, SqlMarker)
    THEN strip(split(split(content, SqlMarker)[2], Fence)[1])
    ELSE NoSqlQuery

\* explanation reading on through a second Explanation marker
explanation_to_note(content) ==
    IF Contains(content, ExplanationMarker)
    THEN strip(split(SubSeq(content, find(content, ExplanationMarker) + Len(ExplanationMarker),
                            Len(content)), NoteMarker)[1])
    ELSE <<>>

\* line 155
explanation(content) ==
    IF Contains(content, ExplanationMarker)
    THEN strip(split(split(content, ExplanationMarker)[2], NoteMarker)[1])
    ELSE <<>>

\* note reading on to the end of the text
note_to_end(content) ==
    IF Contains(content, NoteMarker)
    THEN strip(SubSeq(content, find(content, NoteMarker) + Len(NoteMarker), Len(content)))
    ELSE <<>>

\* line 156
note(content) ==
    IF Contains(content, NoteMarker)
    THEN strip(split(content, NoteMarker)[2])
    ELSE <<>>

\* lines 154-157 on the content of line 153, unless line 153 raised
extract(c) ==
    IF c.raised # "none" THEN c
    ELSE Return([sql_query   |-> sql_query(c.value),
                 explanation |-> explanation(c.value),
                 note        |-> note(c.value)])

parse_response(reply) == extract(content_of(reply))

(***************************************************************************)
(* The script                                                              *)
(***************************************************************************)
\* What a part of the script contributes to a run
Part(ui_, net_, response_, answer_, exc_) ==
    [ui |-> ui_, net |-> net_, response |-> response_, answer |-> answer_, exc |-> exc_]

Nothing == Part(<<>>, <<>>, NoCall, NoCall, "none")

\* lines 85-89: the Verify API Key button
\* A verification request and requests.post's outcome
verification(api_key, vpost) == <<[request |-> verify_request(api_key), post |-> vpost]>>

verify_button(api_key, vpost) ==
    IF verify_api_key(api_key, vpost)
    THEN Part(<<Success(<<"API key is valid.">>)>>, verification(api_key, vpost),
              NoCall, NoCall, "none")
    ELSE Part(<<Error(<<"API key is invalid. Please check and try again.">>)>>,
              verification(api_key, vpost), NoCall, NoCall, "none")

\* lines 174-183: the display of the answer
display(a) ==
    <<Header(<<"Generated Query">>), TextArea(a.sql_query)>>
    \o (IF a.explanation # <<>> THEN <<Header(<<"Explanation">>), Write(a.explanation)>> ELSE <<>>)
    \o (IF a.note # <<>> THEN <<Header(<<"Note">>), Write(a.note)>> ELSE <<>>)

\* lines 172-183 on g, what generate_query returned and did, and a, what
\* parse_response returned or raised: an exception ends the run
show(g, a) ==
    IF a.raised # "none"
    THEN Part(g.ui, g.net, g.ret, a, a.raised)
    ELSE Part(g.ui \o display(a.value), g.net, g.ret, a, "none")

parse_and_show(g) == show(g, parse_response(g.ret))

\* lines 171-183: generate, parse, display
generate_and_show(wv, source_table, target_table, gpost) ==
    parse_and_show(
        generate_query(wv.api_key, PyStr(wv.source_system), PyStr(wv.target_system),
                       PyStr(wv.validation_type), source_table, target_table,
                       PyStr(wv.source_condition), PyStr(wv.source_column),
                       PyStr(wv.source_logic), PyStr(wv.target_condition),
                       PyStr(wv.target_column), PyStr(wv.target_logic),
                       wv.temperature, wv.top_p, gpost))

\* Two parts of a run, one after the other
After(a, b) ==
    Part(a.ui \o b.ui, a.net \o b.net,
         IF b.response = NoCall THEN a.response ELSE b.response,
         IF b.answer = NoCall THEN a.answer ELSE b.answer,
         IF a.exc # "none" THEN a.exc ELSE b.exc)

\* generate_button testing only that the target table is not None
generate_button_none_only(wv, source_table, target_table, vpost, gpost) ==
    IF wv.api_key = ""
    THEN Part(<<Error(<<"Please add your Google Gemini API key.">>)>>, <<>>, NoCall, NoCall, "none")
    ELSE IF target_table = None
    THEN Part(<<Error(<<"Please enter target table details.">>)>>, <<>>, NoCall, NoCall, "none")
    ELSE IF ~verify_api_key(wv.api_key, vpost)
    THEN Part(<<Error(<<"API key is invalid. Please check and try again.">>)>>,
              verification(wv.api_key, vpost), NoCall, NoCall, "none")
    ELSE After(Part(<<>>, verification(wv.api_key, vpost), NoCall, NoCall, "none"),
               generate_and_show(wv, source_table, target_table, gpost))

\* generate_button reporting a failed verification and generating all the same
generate_button_goes_on(wv, source_table, target_table, vpost, gpost) ==
    IF wv.api_key = ""
    THEN Part(<<Error(<<"Please add your Google Gemini API key.">>)>>, <<>>, NoCall, NoCall, "none")
    ELSE IF target_table = None \/ empty(target_table)
    THEN Part(<<Error(<<"Please enter target table details.">>)>>, <<>>, NoCall, NoCall, "none")
    ELSE After(Part(IF ~verify_api_key(wv.api_key, vpost)
                    THEN <<Error(<<"API key is invalid. Please check and try again.">>)>>
                    ELSE <<>>,
                    verification(wv.api_key, vpost), NoCall, NoCall, "none"),
               generate_and_show(wv, source_table, target_table, gpost))

\* generate_button without the verification of lines 166-168
generate_button_unverified(wv, source_table, target_table, vpost, gpost) ==
    IF wv.api_key = ""
    THEN Part(<<Error(<<"Please add your Google Gemini API key.">>)>>, <<>>, NoCall, NoCall, "none")
    ELSE IF target_table = None \/ empty(target_table)
    THEN Part(<<Error(<<"Please enter target table details.">>)>>, <<>>, NoCall, NoCall, "none")
    ELSE generate_and_show(wv, source_table, target_table, gpost)

\* lines 160-183: the Generate Query button
generate_button(wv, source_table, target_table, vpost, gpost) ==
    IF wv.api_key = ""
    THEN Part(<<Error(<<"Please add your Google Gemini API key.">>)>>, <<>>, NoCall, NoCall, "none")
    ELSE IF target_table = None \/ empty(target_table)
    THEN Part(<<Error(<<"Please enter target table details.">>)>>, <<>>, NoCall, NoCall, "none")
    ELSE IF ~verify_api_key(wv.api_key, vpost)
    THEN Part(<<Error(<<"API key is invalid. Please check and try again.">>)>>,
              verification(wv.api_key, vpost), NoCall, NoCall, "none")
    ELSE After(Part(<<>>, verification(wv.api_key, vpost), NoCall, NoCall, "none"),
               generate_and_show(wv, source_table, target_table, gpost))

\* One execution of the script with the widget values wv, the button `click`
\* pressed ("none" when a widget changed; a run has at most one pressed
\* button), and the endpoint answering vpost to a verification request and
\* gpost to a generation request.
Script(wv, click, vpost, gpost) ==
    After(IF table_of(wv.target_input) = None
          THEN Part(<<Error(<<"Target table details are mandatory.">>)>>, <<>>,
                    NoCall, NoCall, "none")
          ELSE Nothing,
          After(IF click = "verify" THEN verify_button(wv.api_key, vpost) ELSE Nothing,
                IF click = "generate"
                THEN generate_button(wv, table_of(wv.source_input),
                                     table_of(wv.target_input), vpost, gpost)
                ELSE Nothing))

(***************************************************************************)
(* The inputs                                                              *)
(***************************************************************************)
\* The em dash of the condition select box (line 54) is written <em>.
ConditionUnset == "<em>Select<em>"

ApiKeys == {"", "AIza-key"}

SourceSystems == {"--Select--", "Oracle"}

TargetSystems == {"--Select--", "SQL Server"}

ValidationTypes == {"--Select--", "Record count"}

Conditions == {ConditionUnset, "Order by"}

ColumnNames == {"", "id"}

Logics == {"", "id > 0"}

\* What is pasted in a table box: nothing, a header line, a header and a row.
\* (A paste that pd.read_csv rejects ends the run at line 48, before any button
\* is drawn; such pastes are not among the inputs.)
TableInputs == {<<>>, <<<<"id", "name">>>>, <<<<"id", "name">>, <<"1", "a">>>>}

\* What requests.post can do: raise a RequestException (every exception that
\* requests raises is one), or return a response
RequestException == [kind |-> "RequestException", message |-> <<"Connection refused">>]

Resp(status_code, content_type, body) ==
    [kind |-> "Response", status_code |-> status_code, content_type |-> content_type,
     body |-> body]

Statuses == {200, 204, 300, 403, 500}

Json == PyStr(<<"application/json">>)

ContentTypes ==
    {None, Json, PyStr(<<"application/json", "; charset=UTF-8">>),
     PyStr(<<"text/html">>), PyStr(<<"application/json", "-seq">>)}

Valid(json) == [valid |-> TRUE, json |-> json]

Invalid(class) == [valid |-> FALSE, raises |-> class]

\* A reply whose first candidate's first part holds the text
TextReply(text) == [candidates |-> <<[content |-> [parts |-> <<[text |-> text]>>]]>>]

Space == <<" ">>

X == <<"x">>

WellFormedText ==
    Concat(<<SqlMarker, Space, X, Space, Fence, Space, ExplanationMarker, Space, X,
             Space, NoteMarker, Space, X>>)

ReplyShapes ==
    {EmptyDict,
     [candidates |-> <<>>],
     [candidates |-> <<EmptyDict>>],
     [candidates |-> <<[content |-> EmptyDict]>>],
     [candidates |-> <<[content |-> [parts |-> <<>>]]>>],
     [candidates |-> <<[content |-> [parts |-> <<EmptyDict>>]]>>],
     TextReply(X),
     TextReply(WellFormedText)}

Bodies ==
    {Invalid(c) : c \in {"requests.exceptions.JSONDecodeError", "json.JSONDecodeError",
                         "simplejson.JSONDecodeError"}}
    \cup {Valid(j) : j \in ReplyShapes}

PostOutcomes ==
    {RequestException}
    \cup {Resp(s, c, b) : s \in Statuses, c \in ContentTypes, b \in Bodies}

\* The answers to a verification request: only the status is read
VerifyOutcomes ==
    {RequestException} \cup {Resp(s, Json, Valid(TextReply(X))) : s \in {200, 204, 403}}

Ok == Resp(200, Json, Valid(TextReply(X)))

\* The answers to a generation request in the interactive application
AppGenerateOutcomes ==
    {RequestException,
     Resp(200, Json, Valid(TextReply(WellFormedText))),
     Resp(200, Json, Valid(EmptyDict)),
     Resp(500, PyStr(<<"text/html">>), Invalid("json.JSONDecodeError"))}

\* The pieces the reply texts are made of: the markers, their parts that can
\* overlap a marker, white space and other text
Tokens ==
    {SqlMarker, Fence, <<Tick>>, ExplanationMarker, NoteMarker,
     SubSeq(ExplanationMarker, 3, Len(ExplanationMarker)),
     SubSeq(NoteMarker, 3, Len(NoteMarker)), Space, X}

Texts == {Concat(ts) : ts \in UNION {[1..k -> Tokens] : k \in 0..MaxTokens}}

(***************************************************************************)
(* The interactive application                                             *)
(***************************************************************************)
\* The state after a script run r
Shows(wv, click, r) ==
    /\ w' = wv
    /\ clicked' = click
    /\ ui' = r.ui
    /\ net' = r.net
    /\ response' = r.response
    /\ answer' = r.answer
    /\ exc' = r.exc

\* Streamlit runs the script again
Rerun(wv, click, vpost, gpost) == Shows(wv, click, Script(wv, click, vpost, gpost))

\* The widget values of a fresh session (lines 13-70).  The sliders stay at
\* their defaults: temperature 1.0, written in tenths, and top_p 0.95, written
\* in hundredths.
Defaults ==
    [api_key |-> "", source_system |-> "--Select--", target_system |-> "--Select--",
     validation_type |-> "--Select--", temperature |-> 10, top_p |-> 95,
     source_input |-> <<>>, source_condition |-> ConditionUnset,
     source_column |-> "", source_logic |-> "",
     target_input |-> <<>>, target_condition |-> ConditionUnset,
     target_column |-> "", target_logic |-> ""]

\* A form filled in so that generation is reached
Filled ==
    [Defaults EXCEPT !.api_key = "AIza-key", !.source_system = "Oracle",
                     !.target_system = "SQL Server", !.validation_type = "Record count",
                     !.target_input = <<<<"id", "name">>, <<"1", "a">>>>]

Shown(wv, r) ==
    /\ w = wv
    /\ clicked = "none"
    /\ ui = r.ui
    /\ net = r.net
    /\ response = r.response
    /\ answer = r.answer
    /\ exc = r.exc

\* The first script run of a session
FirstRun(wv) == Shown(wv, Script(wv, "none", Ok, Ok))

Init ==
    /\ FirstRun(Defaults)
    /\ pending = Ok
    /\ pc = "app"

\* A changed widget reruns the script with no button pressed
Edit(field, values) ==
    /\ pc = "app"
    /\ \E v \in values :
        /\ v # w[field]
        /\ Rerun([w EXCEPT ![field] = v], "none", Ok, Ok)
    /\ UNCHANGED <<pending, pc>>

EditApiKey == Edit("api_key", ApiKeys)

EditSourceSystem == Edit("source_system", SourceSystems)

EditTargetSystem == Edit("target_system", TargetSystems)

EditValidationType == Edit("validation_type", ValidationTypes)

EditSourceTable == Edit("source_input", TableInputs)

EditSourceCondition == Edit("source_condition", Conditions)

EditSourceColumn == Edit("source_column", ColumnNames)

EditSourceLogic == Edit("source_logic", Logics)

EditTargetTable == Edit("target_input", TableInputs)

EditTargetCondition == Edit("target_condition", Conditions)

EditTargetColumn == Edit("target_column", ColumnNames)

EditTargetLogic == Edit("target_logic", Logics)

ClickVerify ==
    /\ pc = "app"
    /\ \E vpost \in VerifyOutcomes : Rerun(w, "verify", vpost, Ok)
    /\ UNCHANGED <<pending, pc>>

ClickGenerate ==
    /\ pc = "app"
    /\ \E vpost \in VerifyOutcomes, gpost \in AppGenerateOutcomes :
        Rerun(w, "generate", vpost, gpost)
    /\ UNCHANGED <<pending, pc>>

Next ==
    \/ EditApiKey
    \/ EditSourceSystem
    \/ EditTargetSystem
    \/ EditValidationType
    \/ EditSourceTable
    \/ EditSourceCondition
    \/ EditSourceColumn
    \/ EditSourceLogic
    \/ EditTargetTable
    \/ EditTargetCondition
    \/ EditTargetColumn
    \/ EditTargetLogic
    \/ ClickVerify
    \/ ClickGenerate

Spec == Init /\ [][Next]_vars

(***************************************************************************)
(* One generation: the filled form, the key verified, and the endpoint's   *)
(* answer to the generation request drawn from a set                       *)
(***************************************************************************)
Generate ==
    /\ pc = "ready"
    /\ Rerun(w, "generate", Ok, pending)
    /\ pc' = "done"
    /\ UNCHANGED pending

\* every answer of the exchange
InitReply ==
    /\ FirstRun(Filled)
    /\ pending \in PostOutcomes
    /\ pc = "ready"

SpecReply == InitReply /\ [][Generate]_vars

\* every reply text
InitParse ==
    /\ FirstRun(Filled)
    /\ pending \in {Resp(200, Json, Valid(TextReply(t))) : t \in Texts}
    /\ pc = "ready"

SpecParse == InitParse /\ [][Generate]_vars

(***************************************************************************)
(* The claims                                                              *)
(***************************************************************************)
\* The user sees the error message `text`
Sees(text) == \E i \in DOMAIN ui : ui[i] = Error(<<text>>)

\* The requests of the last run made by the function fn
Requests(fn) == {i \in DOMAIN net : net[i].request.fn = fn}

TargetAbsent == table_of(w.target_input) = None \/ empty(table_of(w.target_input))

TargetMessage == "Please enter target table details."

KeyMessage == "Please add your Google Gemini API key."

InvalidMessage == "API key is invalid. Please check and try again."

\* C1 as stated: whenever Generate Query is pressed while the target table is
\* None or empty, no generation request is sent and the user sees "Please
\* enter target table details.", whatever the other inputs, the API key
\* included.
C1_AsStated ==
    (clicked = "generate" /\ TargetAbsent)
        => (Requests("generate_query") = {} /\ Sees(TargetMessage))

\* C1 amended: whenever Generate Query is pressed while the target table is
\* None or empty, no request at all is sent; the user sees "Please enter
\* target table details." when the API key is not empty, and "Please add your
\* Google Gemini API key." instead of it when the API key is empty.
C1_TargetTableRequired ==
    (clicked = "generate" /\ TargetAbsent)
        => /\ net = <<>>
           /\ response = NoCall
           /\ IF w.api_key = ""
              THEN Sees(KeyMessage) /\ ~Sees(TargetMessage)
              ELSE Sees(TargetMessage) /\ ~Sees(KeyMessage)

C1_Witness ==
    /\ clicked = "generate"
    /\ w.api_key # ""
    /\ table_of(w.target_input) # None
    /\ empty(table_of(w.target_input))
    /\ w.target_column # ""
    /\ Sees(TargetMessage)

\* C2: whenever Generate Query is pressed with a non-empty target table and a
\* key, the key is verified first, and when verify_api_key returns false the
\* user sees the "API key is invalid." error, generate_query is not called, no
\* generation request is sent and no query, explanation or note is displayed.
C2_InvalidKeyStops ==
    (clicked = "generate" /\ ~TargetAbsent /\ w.api_key # "")
        => /\ net # <<>>
           /\ net[1].request = verify_request(w.api_key)
           /\ ~verify_api_key(w.api_key, net[1].post)
                => /\ Sees(InvalidMessage)
                   /\ Requests("generate_query") = {}
                   /\ Len(net) = 1
                   /\ response = NoCall
                   /\ answer = NoCall
                   /\ \A i \in DOMAIN ui : ui[i].kind = "error"

C2_Witness ==
    /\ clicked = "generate"
    /\ ~TargetAbsent
    /\ w.api_key # ""
    /\ net # <<>>
    /\ net[1].post.kind = "Response"
    /\ net[1].post.status_code = 403
    /\ Sees(InvalidMessage)

\* C3: in every run, a generation request is sent only by the Generate Query
\* button, is immediately preceded in that run by a verification request that
\* was answered with success (no call between the two), and is the only
\* generation request of the run.
C3_VerifiedBeforeGenerate ==
    /\ \A i \in Requests("generate_query") :
        /\ clicked = "generate"
        /\ i > 1
        /\ net[i - 1].request = verify_request(net[i].request.key)
        /\ net[i - 1].post.kind = "Response"
        /\ net[i - 1].post.status_code = 200
        /\ Requests("verify_api_key") = {i - 1}
    /\ Cardinality(Requests("generate_query")) <= 1

C3_Witness ==
    /\ clicked = "generate"
    /\ Requests("generate_query") = {2}
    /\ net[2].post.kind = "RequestException"

\* A success status of HTTP: 2xx
SuccessStatus(post) ==
    post.kind = "Response" /\ post.status_code >= 200 /\ post.status_code < 300

\* What the Verify API Key button tells of verify_api_key's return value
VerifySaidTrue == \E i \in DOMAIN ui : ui[i] = Success(<<"API key is valid.">>)

VerifySaidFalse == Sees(InvalidMessage)

\* C4 as stated: verify_api_key never raises and returns a boolean, true if
\* and only if the request completed with a success status, false for every
\* transport error and every non-success status.
C4_AsStated ==
    clicked = "verify"
        => /\ exc = "none"
           /\ Len(net) = 1
           /\ VerifySaidTrue <=> SuccessStatus(net[1].post)
           /\ VerifySaidFalse <=> ~SuccessStatus(net[1].post)

\* C4 amended: verify_api_key never raises and returns a boolean, true if and
\* only if the request completed with the status code 200, false for every
\* transport error and every other status, the other 2xx codes included.
C4_TrueIffStatus200 ==
    clicked = "verify"
        => /\ exc = "none"
           /\ Len(net) = 1
           /\ verify_api_key(w.api_key, net[1].post) \in BOOLEAN
           /\ VerifySaidTrue
                <=> (net[1].post.kind = "Response" /\ net[1].post.status_code = 200)
           /\ VerifySaidFalse
                <=> ~(net[1].post.kind = "Response" /\ net[1].post.status_code = 200)

C4_Witness ==
    /\ clicked = "verify"
    /\ net[1].post.kind = "Response"
    /\ net[1].post.status_code = 204
    /\ VerifySaidFalse

\* The content types that are JSON
JsonTypes == {Json, PyStr(<<"application/json", "; charset=UTF-8">>)}

\* generate_query returned a Failure record with a message and reported it
ReturnedFailure ==
    /\ DOMAIN response = {"error"}
    /\ response.error # <<>>
    /\ \E i \in DOMAIN ui :
        /\ ui[i].kind = "error"
        /\ Len(ui[i].text) > Len(response.error)
        /\ SubSeq(ui[i].text, Len(ui[i].text) - Len(response.error) + 1, Len(ui[i].text))
             = response.error

\* generate_query returned the decoded reply
ReturnedReply ==
    /\ pending.kind = "Response"
    /\ pending.body.valid
    /\ response = pending.body.json

\* The failures of the exchange as C5 lists them
FailureAsStated ==
    \/ pending.kind = "RequestException"
    \/ ~SuccessStatus(pending)
    \/ pending.content_type \notin JsonTypes
    \/ ~pending.body.valid

\* C5 as stated: for a transport error, a non-success status, a Content-Type
\* that is not JSON (or none) or a body that is not JSON, generate_query
\* returns and reports a Failure record; it returns the decoded reply only
\* when none of these occurred.
C5_AsStated ==
    pc = "done"
        => /\ FailureAsStated => ReturnedFailure
           /\ ReturnedReply => ~FailureAsStated

\* The failures of the exchange as the code tells them
FailureAmended ==
    \/ pending.kind = "RequestException"
    \/ pending.status_code >= 400
    \/ pending.content_type = None
    \/ \A i \in DOMAIN pending.content_type.v : pending.content_type.v[i] # "application/json"
    \/ ~pending.body.valid

\* C5 amended: generate_query never raises; for a transport error, a status
\* of 400 or above, a response with no Content-Type header or one that does
\* not contain application/json, or a body that is not JSON, it returns and
\* reports a Failure record; it returns the decoded reply when, and only
\* when, none of these occurred.
C5_FailureOrReply ==
    pc = "done"
        => /\ response # NoCall
           /\ FailureAmended => ReturnedFailure
           /\ ~FailureAmended => (ReturnedReply /\ \A i \in DOMAIN ui : ui[i].kind # "error")
           /\ ReturnedReply => ~FailureAmended

C5_Witness ==
    /\ pc = "done"
    /\ pending.kind = "Response"
    /\ pending.status_code = 200
    /\ pending.content_type = None
    /\ pending.body.valid
    /\ ReturnedFailure

\* A link of candidates -> first candidate -> content -> parts -> first part
\* -> text is missing from the reply
HasFirstText(reply) ==
    /\ "candidates" \in DOMAIN reply
    /\ reply.candidates # <<>>
    /\ "content" \in DOMAIN reply.candidates[1]
    /\ "parts" \in DOMAIN reply.candidates[1].content
    /\ reply.candidates[1].content.parts # <<>>
    /\ "text" \in DOMAIN reply.candidates[1].content.parts[1]

NothingExtracted == Return([sql_query |-> NoSqlQuery, explanation |-> <<>>, note |-> <<>>])

\* C6: parse_response never fails: when a link of the chain is missing, the
\* empty candidates list, the empty parts list and the Failure record
\* included, the result is ("No SQL query generated.", "", "") and no
\* exception reaches the UI.
C6_ParseNeverFails ==
    pc = "done"
        => /\ exc = "none"
           /\ ~HasFirstText(response) => answer = NothingExtracted

\* The text parse_response reads in the runs of SpecParse
Text == pending.body.json.candidates[1].content.parts[1].text

\* The least index at which marker occurs in s, 0 when it does not
Occurs(s, marker, i) ==
    /\ i >= 1
    /\ i + Len(marker) - 1 <= Len(s)
    /\ \A k \in 1..Len(marker) : s[i + k - 1] = marker[k]

FirstOccurrence(s, marker) ==
    IF \E i \in 1..Len(s) : Occurs(s, marker, i)
    THEN CHOOSE i \in 1..Len(s) :
            Occurs(s, marker, i) /\ \A j \in 1..(i - 1) : ~Occurs(s, marker, j)
    ELSE 0

Has(s, marker) == FirstOccurrence(s, marker) # 0

\* What follows the first occurrence of marker in s
TextAfter(s, marker) == SubSeq(s, FirstOccurrence(s, marker) + Len(marker), Len(s))

\* What precedes the first occurrence of marker in s, s when there is none
TextBefore(s, marker) ==
    IF Has(s, marker) THEN SubSeq(s, 1, FirstOccurrence(s, marker) - 1) ELSE s

\* C7 as stated: the sqlQuery is, when the text contains the sql marker, what
\* lies between its first occurrence and the next fence after it, trimmed,
\* and else the sentinel; a text without any marker gives the sentinel and
\* two empty strings.
C7_AsStated ==
    pc = "done"
        => IF Has(Text, SqlMarker)
           THEN Has(TextAfter(Text, SqlMarker), Fence)
                  => answer.value.sql_query
                       = strip(TextBefore(TextAfter(Text, SqlMarker), Fence))
           ELSE /\ answer.value.sql_query = NoSqlQuery
                /\ (~Has(Text, ExplanationMarker) /\ ~Has(Text, NoteMarker))
                     => answer = NothingExtracted

\* C7 amended: the sqlQuery is, when the text contains the sql marker: the
\* text after its first occurrence, cut off at the next sql marker if there
\* is one, and of that what precedes the first fence (all of it when no fence
\* is left in it), trimmed; and else the sentinel.  A text without any marker
\* gives the sentinel and two empty strings.
C7_SqlQuery ==
    pc = "done"
        => IF Has(Text, SqlMarker)
           THEN answer.value.sql_query
                  = strip(TextBefore(TextBefore(TextAfter(Text, SqlMarker), SqlMarker), Fence))
           ELSE /\ answer.value.sql_query = NoSqlQuery
                /\ (~Has(Text, ExplanationMarker) /\ ~Has(Text, NoteMarker))
                     => answer = NothingExtracted

C7_Witness ==
    /\ pc = "done"
    /\ Text = SqlMarker \o Space \o X \o Fence
    /\ answer.value.sql_query = X

\* C8 as stated: the explanation is, when the text contains the Explanation
\* marker, what lies between its first occurrence and the next Note marker
\* after it, or the end of the text, trimmed, and else empty; also when the
\* Explanation marker occurs more than once.
C8_AsStated ==
    pc = "done"
        => answer.value.explanation
             = IF Has(Text, ExplanationMarker)
               THEN strip(TextBefore(TextAfter(Text, ExplanationMarker), NoteMarker))
               ELSE <<>>

\* C8 amended: the explanation is, when the text contains the Explanation
\* marker: the text after its first occurrence, cut off at the next
\* Explanation marker if there is one, and of that what precedes the first
\* Note marker (all of it when there is none), trimmed; and else empty.  A
\* Note marker before the Explanation marker changes nothing.
C8_Explanation ==
    pc = "done"
        => answer.value.explanation
             = IF Has(Text, ExplanationMarker)
               THEN strip(TextBefore(TextBefore(TextAfter(Text, ExplanationMarker),
                                                ExplanationMarker), NoteMarker))
               ELSE <<>>

C8_Witness ==
    /\ pc = "done"
    /\ Text = ExplanationMarker \o X \o ExplanationMarker
    /\ answer.value.explanation = X

\* C9 as stated: the note is, when the text contains the Note marker, all
\* that follows its first occurrence up to the end of the text, later Note
\* markers included, trimmed, and else empty.
C9_AsStated ==
    pc = "done"
        => answer.value.note
             = IF Has(Text, NoteMarker) THEN strip(TextAfter(Text, NoteMarker)) ELSE <<>>

\* C9 amended: the note is, when the text contains the Note marker, what
\* follows its first occurrence up to the next Note marker, or up to the end
\* of the text when there is none, trimmed; and else empty.
C9_Note ==
    pc = "done"
        => answer.value.note
             = IF Has(Text, NoteMarker)
               THEN strip(TextBefore(TextAfter(Text, NoteMarker), NoteMarker))
               ELSE <<>>

C9_Witness ==
    /\ pc = "done"
    /\ Text = NoteMarker \o X \o NoteMarker
    /\ answer.value.note = X

\* The optional fields of the prompt: the widget holding each, and the value
\* of that widget that means the field is absent
Unset ==
    [SourceSystem    |-> [widget |-> "source_system",    absent |-> "--Select--"],
     TargetSystem    |-> [widget |-> "target_system",    absent |-> "--Select--"],
     SourceCondition |-> [widget |-> "source_condition", absent |-> ConditionUnset],
     SourceColumn    |-> [widget |-> "source_column",    absent |-> ""],
     SourceLogic     |-> [widget |-> "source_logic",     absent |-> ""],
     TargetCondition |-> [widget |-> "target_condition", absent |-> ConditionUnset],
     TargetColumn    |-> [widget |-> "target_column",    absent |-> ""],
     TargetLogic     |-> [widget |-> "target_logic",     absent |-> ""]]

NotProvided == <<"Not provided">>

\* The prompt embeds the fields as C10 says
AsC10Says(prompt) ==
    /\ \A f \in DOMAIN Unset :
        prompt[f] = IF w[Unset[f].widget] = Unset[f].absent
                    THEN NotProvided
                    ELSE <<w[Unset[f].widget]>>
    /\ prompt.SourceTable
         = IF table_of(w.source_input) = None \/ empty(table_of(w.source_input))
           THEN NotProvided
           ELSE Str(table_of(w.source_input))

\* C10: the prompt of a generation request holds "Not provided" for every
\* optional field that is absent (an empty or missing table, an unset
\* condition, an empty column or logic, a system left unselected) and the
\* field's value when it is present.
C10_NotProvided ==
    \A i \in Requests("generate_query") :
        AsC10Says(net[i].request.json.contents[1].parts[1].text)

====
